---- MODULE Spec2Model ----
(***************************************************************************)
(* Service account pool of eclone (backend/drive/saPool.go).               *)
(*                                                                         *)
(* A ServiceAccountPool holds                                              *)
(*   - the rotation index: sas (index -> SaEntry), saPool (path -> index)   *)
(*     and activeIdx, used by updateSas / rollup / activeSa / staleSa /     *)
(*     revertStaleSa;                                                       *)
(*   - Files, the set of paths GetFile draws from, guarded by the           *)
(*     package-level serviceAccountBlacklist (path -> time of blacklisting);*)
(*   - svcs, the preloaded services, capped by Max in AddService (born     *)
(*     records the order in which its entries were inserted);              *)
(*   - mu, the mutex taken by AddService, GetService, GetClient,            *)
(*     PreloadServices and GetFile.                                         *)
(*                                                                         *)
(* Go maps are modelled as functions with a finite domain; a lookup of a   *)
(* missing key gives the zero value, as in Go.  Time is counted in hours.  *)
(***************************************************************************)
EXTENDS Integers, Sequences, FiniteSets, TLC

\* ------------------------------------------------------------------ bounds

\* Longest list handed to updateSas.
MaxLen == 2

\* The clock stops here (hours since the process started).
MaxClock == 26

\* Largest max handed to NewServiceAccountPool.
MaxMax == 3

\* Largest count handed to PreloadServices.
MaxCount == 2

\* PreloadServices is not called when svcs would grow beyond this length.
MaxSvcs == 3

\* Calls begun by the concurrent callers.
MaxCalls == 2

\* GetFile calls begun on the pools that share the blacklist.
MaxSelects == 3

\* ---------------------------------------------------------------- universe

\* The pool instances of the process; they share serviceAccountBlacklist.
Pools == {"p1", "p2"}

\* Paths used as arguments of the rotation index operations.
Ids == {"a", "b", "c"}

\* A path that is never loaded (TestActive's "f", TestRevertStaleSa's "f").
Unknown == "z"

\* Targets handed to activeSa, staleSa and revertStaleSa.
Targets == Ids \cup {"", Unknown}

\* Lists without repetition, of length 1..n, over S: a directory listing
\* never holds the same path twice.
RECURSIVE ListsUpTo(_, _)
ListsUpTo(S, n) ==
    IF n = 0 THEN {<<>>}
    ELSE LET shorter == ListsUpTo(S, n - 1)
         IN  shorter \cup
             {Append(l, x) : l \in {m \in shorter : Len(m) = n - 1},
                             x \in S}

Range(f) == {f[x] : x \in DOMAIN f}

NoDup(l) == Cardinality(Range(l)) = Len(l)

DataLists == {l \in ListsUpTo(Ids, MaxLen) : NoDup(l)}

\* const blacklistDuration = 25 * time.Hour
blacklistDuration == 25

\* The amounts of time that pass between calls: 12 and 13 hours make
\* blacklist entries of age 24, 25 (not yet expired) and 26 (expired).
TickSteps == {12, 13}

\* string(os.PathSeparator)
PathSeparator == "/"

\* The names a scanned directory may hold, in the order os.ReadDir lists them.
DirOrder == <<"a.json", "b.json", "n.txt">>

\* opt.ServiceAccountFilePath: unset, without and with a trailing separator.
Folders == {"", "/sa", "/sa/"}

\* opt.ServiceAccountFile: unset, a file of the directory, a file outside it.
ActiveFiles == {"", "/sa/a.json", "/sa/c.json"}

\* excludeFile arguments of GetFile.
ExcludeArgs == {"", "/sa/a.json", "/sa/b.json"}

\* The client/service pairs the engine hands to AddService.
HandleNames == {"x", "y", "w"}

\* The goroutines calling into one pool.
Threads == {"t1", "t2"}

\* mu[p] when no goroutine holds the mutex.
NoThread == "none"

\* ------------------------------------------------------------------- state

VARIABLES
    sas,          \* sas[p]: index -> SaEntry
    activeIdx,    \* activeIdx[p]: current active index in sas[p]
    saPool,       \* saPool[p]: path -> index
    Files,        \* Files[p]: available SA file paths (for GetFile)
    serviceAccountBlacklist,  \* path -> time of blacklisting, process-wide
    Max,          \* Max[p]: max preloaded services to keep
    svcs,         \* svcs[p]: the preloaded ServiceAccountInfo, front first
    born,         \* born[p][i]: the rank of svcs[p][i] by time of insertion
    mu,           \* mu[p]: the goroutine holding p.mu, or NoThread
    now,          \* time.Now(), in hours
    last,         \* the last call: its name, pool, arguments and results
    pc,           \* pc[t]: the call goroutine t is inside, or Idle
    crashed,      \* the runtime has aborted the process
    ncalls        \* calls begun by the goroutines

vars == <<sas, activeIdx, saPool, Files, serviceAccountBlacklist, Max, svcs,
          born, mu, now, last, pc, crashed, ncalls>>

\* What a single caller, making one call after another, leaves alone.
callerVars == <<Max, mu, pc, crashed, ncalls>>

\* The zero value of SaEntry, which a Go map lookup gives for a missing key.
ZeroEntry == [saPath |-> "", isStale |-> FALSE]

EmptyMap == [k \in {} |-> 0]

SasGet(s, i) == IF i \in DOMAIN s THEN s[i] ELSE ZeroEntry

\* saPool[k] of Go: the index, or 0 for a missing key.
PoolGet(m, k) == IF k \in DOMAIN m THEN m[k] ELSE 0

MapPut(m, k, v) == [x \in DOMAIN m \cup {k} |-> IF x = k THEN v ELSE m[x]]

MapDelete(m, k) == [x \in DOMAIN m \ {k} |-> m[x]]

\* A call as recorded in last: err is the error message's kind, purged
\* whether GetFile deleted the returned file's blacklist entry, removed
\* whether GetFile's delete took excludeFile out of Files, rolled whether
\* activeSa was handed the result of the rollup made right before it, n the
\* count handed to PreloadServices, prior the time of the blacklist entry
\* that GetFile's Store overwrote (-1 if it overwrote none), before the sas
\* and saPool that staleSa or revertStaleSa found, undoes whether
\* revertStaleSa was handed the target of the staleSa made right before it,
\* which found that target's entry not stale.
Call(op, p, arg, data, ok, out) ==
    [op |-> op, p |-> p, arg |-> arg, data |-> data, ok |-> ok, out |-> out,
     err |-> "", purged |-> FALSE, removed |-> FALSE, rolled |-> FALSE,
     n |-> 0, prior |-> -1, before |-> [sas |-> EmptyMap, saPool |-> EmptyMap],
     undoes |-> FALSE]

\* ---------------------------------------------------------- rotation index

findIdxByStrInPool(m, str) == IF str \in DOMAIN m THEN m[str] ELSE -1

\* findIdxByStr giving the zero index for a path no entry has.
findIdxByStrZero(s, str) ==
    LET hits == {k \in DOMAIN s : s[k].saPath = str}
    IN  IF hits = {} THEN {0} ELSE hits

\* The keys of s whose entry has path str, or {-1}: the loop ranges over the
\* map in an unspecified order and returns at the first match.
findIdxByStr(s, str) ==
    LET hits == {k \in DOMAIN s : s[k].saPath = str}
    IN  IF hits = {} THEN {-1} ELSE hits

\* The index as rebuilt from data, before the active path is looked up.
convSas(data) ==
    [i \in 0 .. Len(data) - 1 |-> [saPath |-> data[i + 1], isStale |-> FALSE]]

\* convData[v] = i for each i in range order: a later position overwrites.
convData(data) ==
    [v \in Range(data) |->
        CHOOSE i \in 0 .. Len(data) - 1 :
            /\ data[i + 1] = v
            /\ \A j \in 0 .. Len(data) - 1 : data[j + 1] = v => j <= i]

\* updateSas without its early return on an empty argument.
updateSasNoGuard(st, data, activeSa) ==
    LET s0 == convSas(data)
        m0 == convData(data)
        result == findIdxByStrInPool(m0, activeSa)
        existLen == Cardinality(DOMAIN s0)
    IN  IF result # -1
        THEN [sas |-> s0, saPool |-> m0, activeIdx |-> result]
        ELSE [sas |-> [i \in DOMAIN s0 \cup {existLen} |->
                          IF i = existLen
                          THEN [saPath |-> activeSa, isStale |-> FALSE]
                          ELSE s0[i]],
              saPool |-> MapPut(m0, activeSa, existLen),
              activeIdx |-> existLen]

\* updateSas that activates the last listed entry instead of appending.
updateSasNoAppend(st, data, activeSa) ==
    IF Len(data) = 0 \/ activeSa = "" THEN st
    ELSE LET s0 == convSas(data)
             m0 == convData(data)
             result == findIdxByStrInPool(m0, activeSa)
         IN  [sas |-> s0, saPool |-> m0,
              activeIdx |-> IF result # -1 THEN result ELSE Len(data) - 1]

\* updateSas as a function of the index st = [sas, saPool, activeIdx].
updateSasState(st, data, activeSa) ==
    IF Len(data) = 0 \/ activeSa = "" THEN st
    ELSE LET s0 == convSas(data)
             m0 == convData(data)
             result == findIdxByStrInPool(m0, activeSa)
             existLen == Cardinality(DOMAIN s0)
         IN  IF result # -1
             THEN [sas |-> s0, saPool |-> m0, activeIdx |-> result]
             ELSE [sas |-> [i \in DOMAIN s0 \cup {existLen} |->
                               IF i = existLen
                               THEN [saPath |-> activeSa, isStale |-> FALSE]
                               ELSE s0[i]],
                   saPool |-> MapPut(m0, activeSa, existLen),
                   activeIdx |-> existLen]

IndexOf(p) == [sas |-> sas[p], saPool |-> saPool[p], activeIdx |-> activeIdx[p]]

SetIndex(p, st) ==
    /\ sas' = [sas EXCEPT ![p] = st.sas]
    /\ saPool' = [saPool EXCEPT ![p] = st.saPool]
    /\ activeIdx' = [activeIdx EXCEPT ![p] = st.activeIdx]

Min(S) == CHOOSE x \in S : \A y \in S : x <= y

\* rollup that scans from index 0 first.
rollupFromZero(s, a) ==
    LET existLen == Cardinality(DOMAIN s)
        any == {i \in 0 .. existLen - 1 : i # a /\ ~SasGet(s, i).isStale}
    IN  IF any # {} THEN SasGet(s, Min(any)).saPath ELSE ""

\* rollup that does not test the stale flag.
rollupNoSkip(s, a) ==
    LET existLen == Cardinality(DOMAIN s)
        fwd == {i \in a + 1 .. existLen - 1 : TRUE}
        back == {i \in 0 .. a - 1 : TRUE}
    IN  IF fwd # {} THEN SasGet(s, Min(fwd)).saPath
        ELSE IF back # {} THEN SasGet(s, Min(back)).saPath
        ELSE ""

\* rollup: the first non-stale entry after activeIdx, then from 0 up to it.
rollupOf(s, a) ==
    LET existLen == Cardinality(DOMAIN s)
        fwd == {i \in a + 1 .. existLen - 1 : ~SasGet(s, i).isStale}
        back == {i \in 0 .. a - 1 : ~SasGet(s, i).isStale}
    IN  IF fwd # {} THEN SasGet(s, Min(fwd)).saPath
        ELSE IF back # {} THEN SasGet(s, Min(back)).saPath
        ELSE ""

isPoolEmpty(m) == Cardinality(DOMAIN m) = 0

\* randomPick: any value of saPool (rand.Intn over its length), -1 if empty.
randomPick(m) == IF Cardinality(DOMAIN m) = 0 THEN {-1} ELSE Range(m)

\* A call a goroutine is inside: the method, its receiver and arguments.
Cmd(op, p, arg, data, n, folder, readErr) ==
    [op |-> op, p |-> p, arg |-> arg, data |-> data, n |-> n,
     folder |-> folder, readErr |-> readErr]

Idle == Cmd("idle", "p1", "", <<>>, 0, "", FALSE)

\* NewServiceAccountPool(ctx, max) for every pool; activeIdx is left at 0.
InitMax(max) ==
    /\ sas = [p \in Pools |-> EmptyMap]
    /\ saPool = [p \in Pools |-> EmptyMap]
    /\ activeIdx = [p \in Pools |-> 0]
    /\ Files = [p \in Pools |-> {}]
    /\ serviceAccountBlacklist = EmptyMap
    /\ now = 0
    /\ Max = [p \in Pools |-> max]
    /\ svcs = [p \in Pools |-> <<>>]
    /\ born = [p \in Pools |-> <<>>]
    /\ mu = [p \in Pools |-> NoThread]
    /\ pc = [t \in Threads |-> Idle]
    /\ crashed = FALSE
    /\ ncalls = 0
    /\ last = Call("new", "p1", "", <<>>, FALSE, "")

Init == InitMax(MaxMax)

updateSas(p, data, activeSa) ==
    /\ SetIndex(p, updateSasState(IndexOf(p), data, activeSa))
    /\ last' = Call("updateSas", p, activeSa, data, TRUE, "")
    /\ UNCHANGED <<Files, serviceAccountBlacklist, svcs, born>>

\* rollup that also makes the entry it returns the active one.
rollupActivating(p) ==
    LET out == rollupOf(sas[p], activeIdx[p])
    IN  /\ last' = Call("rollup", p, "", <<>>, TRUE, out)
        /\ activeIdx' = [activeIdx EXCEPT ![p] =
                            IF out \in DOMAIN saPool[p] THEN saPool[p][out]
                            ELSE @]
        /\ UNCHANGED <<sas, saPool, Files, serviceAccountBlacklist, svcs, born>>

rollup(p) ==
    /\ last' = Call("rollup", p, "", <<>>, TRUE, rollupOf(sas[p], activeIdx[p]))
    /\ UNCHANGED <<sas, saPool, activeIdx, Files, serviceAccountBlacklist, svcs, born>>

activeSa(p, saPath) ==
    /\ activeIdx' = [activeIdx EXCEPT ![p] =
                        IF saPath \in DOMAIN saPool[p] THEN saPool[p][saPath]
                        ELSE @]
    /\ last' = [Call("activeSa", p, saPath, <<>>, TRUE, "")
                    EXCEPT !.rolled = last.op = "rollup" /\ last.p = p
                                      /\ last.out = saPath]
    /\ UNCHANGED <<sas, saPool, Files, serviceAccountBlacklist, svcs, born>>

staleSa(p, target0) ==
    LET target == IF target0 = "" THEN SasGet(sas[p], activeIdx[p]).saPath
                  ELSE target0
        oldIdx == PoolGet(saPool[p], target)
        s1 == IF oldIdx \in DOMAIN sas[p]
              THEN [sas[p] EXCEPT ![oldIdx].isStale = TRUE]
              ELSE sas[p]
        m1 == MapDelete(saPool[p], target)
        call(ok, out) == [Call("staleSa", p, target0, <<>>, ok, out)
                             EXCEPT !.before = [sas |-> sas[p],
                                                saPool |-> saPool[p]]]
    IN  /\ sas' = [sas EXCEPT ![p] = s1]
        /\ saPool' = [saPool EXCEPT ![p] = m1]
        /\ UNCHANGED <<Files, serviceAccountBlacklist, svcs, born>>
        /\ IF isPoolEmpty(m1)
           THEN /\ activeIdx' = [activeIdx EXCEPT ![p] = -1]
                /\ last' = call(TRUE, "")
           ELSE \E ret \in randomPick(m1) :
                  IF ret # -1
                  THEN /\ activeIdx' = [activeIdx EXCEPT ![p] = ret]
                       /\ last' = call(FALSE, SasGet(s1, ret).saPath)
                  ELSE /\ activeIdx' = activeIdx
                       /\ last' = call(TRUE, "")

\* The history a revertStaleSa call leaves in last.
RevertCall(p, target) ==
    [Call("revertStaleSa", p, target, <<>>, TRUE, "")
        EXCEPT !.before = [sas |-> sas[p], saPool |-> saPool[p]],
               !.undoes = /\ last.op = "staleSa"
                          /\ last.p = p
                          /\ last.arg = target
                          /\ \E i \in DOMAIN last.before.sas :
                                /\ last.before.sas[i].saPath = target
                                /\ ~last.before.sas[i].isStale]

\* revertStaleSa that clears the flag and leaves saPool alone.
revertStaleSaFlagOnly(p, target) ==
    /\ last' = RevertCall(p, target)
    /\ UNCHANGED <<activeIdx, Files, serviceAccountBlacklist, svcs, born>>
    /\ UNCHANGED saPool
    /\ IF target = ""
       THEN UNCHANGED sas
       ELSE \E oldIdx \in findIdxByStr(sas[p], target) :
              IF oldIdx # -1 /\ oldIdx \in DOMAIN sas[p]
              THEN sas' = [sas EXCEPT ![p][oldIdx].isStale = FALSE]
              ELSE UNCHANGED sas

revertStaleSa(p, target) ==
    /\ last' = RevertCall(p, target)
    /\ UNCHANGED <<activeIdx, Files, serviceAccountBlacklist, svcs, born>>
    /\ IF target = ""
       THEN UNCHANGED <<sas, saPool>>
       ELSE \E oldIdx \in findIdxByStr(sas[p], target) :
              IF oldIdx # -1 /\ oldIdx \in DOMAIN sas[p]
              THEN /\ sas' = [sas EXCEPT ![p][oldIdx].isStale = FALSE]
                   /\ saPool' = [saPool EXCEPT ![p] = MapPut(@, target, oldIdx)]
              ELSE UNCHANGED <<sas, saPool>>

\* The pool the rotation index operations are exercised on: the index of
\* one pool is not read or written by any call on another.
IndexPool == "p1"

DoUpdateSas ==
    /\ \E data \in DataLists \cup {<<>>}, a \in Ids \cup {""} :
          updateSas(IndexPool, data, a)
    /\ UNCHANGED <<now, callerVars>>
DoRollup == rollup(IndexPool) /\ UNCHANGED <<now, callerVars>>
DoActiveSa ==
    (\E t \in Targets : activeSa(IndexPool, t)) /\ UNCHANGED <<now, callerVars>>
DoStaleSa ==
    (\E t \in Targets : staleSa(IndexPool, t)) /\ UNCHANGED <<now, callerVars>>
DoRevertStaleSa ==
    /\ \E t \in Targets : revertStaleSa(IndexPool, t)
    /\ UNCHANGED <<now, callerVars>>

NextIndex ==
    \/ DoUpdateSas
    \/ DoRollup
    \/ DoActiveSa
    \/ DoStaleSa
    \/ DoRevertStaleSa

SpecIndex == Init /\ [][NextIndex]_vars

\* ------------------------------------------------- file pool and blacklist

\* strings.HasSuffix
HasSuffix(str, suffix) ==
    /\ Len(str) >= Len(suffix)
    /\ SubSeq(str, Len(str) - Len(suffix) + 1, Len(str)) = suffix

Last(S) == CHOOSE x \in S : \A y \in S : x >= y

\* path.Ext: the suffix from the last dot of the last path element, or "".
Ext(path) ==
    LET dots == {i \in 1 .. Len(path) :
                    /\ SubSeq(path, i, i) = "."
                    /\ \A j \in i .. Len(path) : SubSeq(path, j, j) # "/"}
    IN  IF dots = {} THEN "" ELSE SubSeq(path, Last(dots), Len(path))

\* The listings os.ReadDir can give: every set of names, sorted by name.
Listings ==
    {SelectSeq(DirOrder, LAMBDA n : n \in S) : S \in SUBSET Range(DirOrder)}

\* What Load can meet: no folder configured, a folder os.ReadDir fails on,
\* a folder with a listing.
LoadCases ==
    {[folder |-> "", readErr |-> FALSE, entries |-> <<>>]}
    \cup {[folder |-> f, readErr |-> TRUE, entries |-> <<>>] :
            f \in Folders \ {""}}
    \cup {[folder |-> f, readErr |-> FALSE, entries |-> l] :
            f \in Folders \ {""}, l \in Listings}

\* Load: readErr is os.ReadDir failing, entries its listing otherwise.  In
\* last, data is fileNames and out the folder that was scanned.
Load(p, saFolder0, readErr, entries, ServiceAccountFile) ==
    IF saFolder0 = ""
    THEN /\ last' = Call("Load", p, ServiceAccountFile, <<>>, TRUE, "")
         /\ UNCHANGED <<sas, saPool, activeIdx, Files, serviceAccountBlacklist, svcs, born>>
    ELSE IF readErr
    THEN /\ last' = [Call("Load", p, ServiceAccountFile, <<>>, FALSE, "")
                        EXCEPT !.err = "error loading service accounts from folder"]
         /\ UNCHANGED <<sas, saPool, activeIdx, Files, serviceAccountBlacklist, svcs, born>>
    ELSE LET saFolder == IF HasSuffix(saFolder0, PathSeparator) THEN saFolder0
                         ELSE saFolder0 \o PathSeparator
             paths == [i \in 1 .. Len(entries) |-> saFolder \o entries[i]]
             fileNames == SelectSeq(paths, LAMBDA f : Ext(f) = ".json")
             fileList == {f \in Range(fileNames) : f # ServiceAccountFile}
         IN  /\ Files' = [Files EXCEPT ![p] = fileList]
             /\ SetIndex(p, updateSasState(IndexOf(p), fileNames, ServiceAccountFile))
             /\ last' = Call("Load", p, ServiceAccountFile, fileNames, TRUE,
                             saFolder)
             /\ UNCHANGED <<serviceAccountBlacklist, svcs, born>>

\* The orders in which the keys of a set can be collected and permuted.
Orders(S) ==
    {l \in ListsUpTo(S, Cardinality(S)) : Len(l) = Cardinality(S) /\ NoDup(l)}

\* The fclone defect: the blacklist key is a variable not yet assigned.
StoreEmptyKey(bl, excludeFile, t) ==
    IF excludeFile # "" THEN MapPut(bl, "", t) ELSE bl

\* The store made whatever excludeFile is.
StoreUnguarded(bl, excludeFile, t) == MapPut(bl, excludeFile, t)

\* A store that keeps the time of an entry the map already has.
StoreIfAbsent(bl, excludeFile, t) ==
    IF excludeFile # "" /\ excludeFile \notin DOMAIN bl
    THEN MapPut(bl, excludeFile, t) ELSE bl

\* serviceAccountBlacklist.Store(excludeFile, time.Now()) when excludeFile # "".
StoreExcluded(bl, excludeFile, t) ==
    IF excludeFile # "" THEN MapPut(bl, excludeFile, t) ELSE bl

\* The time of the entry that Store(excludeFile, ..) replaces, -1 if none.
PriorTime(bl, excludeFile) ==
    IF excludeFile # "" /\ excludeFile \in DOMAIN bl THEN bl[excludeFile] ELSE -1

\* The comparison the wrong way round.
ExpiredReversed(blackTime, t) == t - blackTime < blacklistDuration

\* time.Since(blackTime) > blacklistDuration
Expired(blackTime, t) == t - blackTime > blacklistDuration

\* The test of the selection loop without the expiry of entries.
UsableUnlisted(bl, file, t) == file \notin DOMAIN bl

\* The test of the selection loop: not blacklisted, or blacklisted and expired.
Usable(bl, file, t) == file \notin DOMAIN bl \/ Expired(bl[file], t)

\* The error messages of _getFile.
NoCandidates == "no available service account file"
AllBlacklisted == "no available service account file (all blacklisted)"

\* GetFile that first puts back into Files the files whose blacklist entry
\* has expired.
GetFileReadmitting(p, excludeFile) ==
    LET bl1 == StoreExcluded(serviceAccountBlacklist, excludeFile, now)
        back == {x \in DOMAIN serviceAccountBlacklist :
                    x # "" /\ Expired(serviceAccountBlacklist[x], now)}
        files0 == Files[p] \cup back
        files1 == IF excludeFile # "" THEN files0 \ {excludeFile} ELSE files0
        call == [Call("GetFile", p, excludeFile, <<>>, FALSE, "")
                    EXCEPT !.removed = files1 # Files[p],
                           !.prior = PriorTime(serviceAccountBlacklist,
                                               excludeFile)]
    IN  /\ Files' = [Files EXCEPT ![p] = files1]
        /\ UNCHANGED <<sas, saPool, activeIdx, svcs, born>>
        /\ IF Cardinality(files1) = 0
           THEN /\ serviceAccountBlacklist' = bl1
                /\ last' = [call EXCEPT !.err = NoCandidates]
           ELSE \E keys \in Orders(files1) :
                  LET hits == {i \in 1 .. Len(keys) : Usable(bl1, keys[i], now)}
                  IN  IF hits # {}
                      THEN LET file == keys[Min(hits)]
                           IN  /\ serviceAccountBlacklist' =
                                     IF file \in DOMAIN bl1 THEN MapDelete(bl1, file)
                                     ELSE bl1
                               /\ last' = [call EXCEPT !.ok = TRUE, !.out = file,
                                              !.purged = file \in DOMAIN bl1]
                      ELSE /\ serviceAccountBlacklist' = bl1
                           /\ last' = [call EXCEPT !.err = AllBlacklisted]

\* _getFile under GetFile's lock.  keys is the order of the permuted keys.
GetFile(p, excludeFile) ==
    LET bl1 == StoreExcluded(serviceAccountBlacklist, excludeFile, now)
        files1 == IF excludeFile # "" THEN Files[p] \ {excludeFile} ELSE Files[p]
        call == [Call("GetFile", p, excludeFile, <<>>, FALSE, "")
                    EXCEPT !.removed = files1 # Files[p],
                           !.prior = PriorTime(serviceAccountBlacklist,
                                               excludeFile)]
    IN  /\ Files' = [Files EXCEPT ![p] = files1]
        /\ UNCHANGED <<sas, saPool, activeIdx, svcs, born>>
        /\ IF Cardinality(files1) = 0
           THEN /\ serviceAccountBlacklist' = bl1
                /\ last' = [call EXCEPT !.err = NoCandidates]
           ELSE \E keys \in Orders(files1) :
                  LET hits == {i \in 1 .. Len(keys) : Usable(bl1, keys[i], now)}
                  IN  IF hits # {}
                      THEN LET file == keys[Min(hits)]
                           IN  /\ serviceAccountBlacklist' =
                                     IF file \in DOMAIN bl1 THEN MapDelete(bl1, file)
                                     ELSE bl1
                               /\ last' = [call EXCEPT !.ok = TRUE, !.out = file,
                                              !.purged = file \in DOMAIN bl1]
                      ELSE /\ serviceAccountBlacklist' = bl1
                           /\ last' = [call EXCEPT !.err = AllBlacklisted]

\* Time passes between two calls.
Tick ==
    /\ \E d \in TickSteps : now + d <= MaxClock /\ now' = now + d
    /\ last' = Call("tick", "p1", "", <<>>, TRUE, "")
    /\ UNCHANGED <<sas, saPool, activeIdx, Files, serviceAccountBlacklist, svcs, born>>
    /\ UNCHANGED callerVars

\* The pool the file pool operations are exercised on.
FilePool == "p1"

DoLoad ==
    /\ \E c \in LoadCases, a \in ActiveFiles :
          Load(FilePool, c.folder, c.readErr, c.entries, a)
    /\ UNCHANGED <<now, callerVars>>

\* GetFile takes p.mu for the whole call and releases it on return.
DoGetFile ==
    /\ mu[FilePool] = NoThread
    /\ \E x \in ExcludeArgs : GetFile(FilePool, x)
    /\ UNCHANGED <<now, callerVars>>

NextFiles ==
    \/ DoLoad
    \/ DoGetFile
    \/ Tick

SpecFiles == Init /\ [][NextFiles]_vars

\* Steady state: Load is called once, when the backend is configured, before
\* any GetFile; afterwards the engine hands GetFile the file that has just
\* hit a rate limit, or nothing.
DoConfigure ==
    /\ last.op = "new"
    /\ \E c \in LoadCases, a \in ActiveFiles :
          Load(FilePool, c.folder, c.readErr, c.entries, a)
    /\ UNCHANGED <<now, callerVars>>

DoExclude ==
    /\ mu[FilePool] = NoThread
    /\ \E x \in Files[FilePool] : GetFile(FilePool, x)
    /\ UNCHANGED <<now, callerVars>>

DoSelect ==
    /\ mu[FilePool] = NoThread
    /\ GetFile(FilePool, "")
    /\ UNCHANGED <<now, callerVars>>

NextSteady ==
    \/ DoConfigure
    \/ DoExclude
    \/ DoSelect
    \/ Tick

SpecSteady == Init /\ [][NextSteady]_vars

\* ------------------------------------------------------ preloaded services

\* A ServiceAccountInfo: the two handles made for one credential h.
Pair(h) == [Service |-> "svc-" \o h, Client |-> "client-" \o h]

\* The ranks 1..Len(q) of the entries of q, in the order of their values.
Ranks(q) ==
    [i \in 1 .. Len(q) |-> Cardinality({j \in 1 .. Len(q) : q[j] <= q[i]})]

\* AddService: push to the front, cut to the first Max entries.  In last, arg
\* is the client and out the service that were handed in.
AddService(p, client, svc) ==
    LET pushed == <<[Service |-> svc, Client |-> client]>> \o svcs[p]
        stamped == <<Len(born[p]) + 1>> \o born[p]
    IN  /\ svcs' = [svcs EXCEPT ![p] =
                       IF Len(pushed) > Max[p] THEN SubSeq(pushed, 1, Max[p])
                       ELSE pushed]
        /\ born' = [born EXCEPT ![p] =
                       IF Len(stamped) > Max[p]
                       THEN Ranks(SubSeq(stamped, 1, Max[p]))
                       ELSE stamped]
        /\ last' = Call("AddService", p, client, <<>>, TRUE, svc)
        /\ UNCHANGED <<sas, saPool, activeIdx, Files, serviceAccountBlacklist>>

\* The rotation that leaves the front entry in place as well.
RotateGrow(q) == Append(q, Head(q))

\* No rotation.
RotateNone(q) == q

\* append(p.svcs[1:], p.svcs[0])
Rotate(q) == Append(Tail(q), Head(q))

GetService(p) ==
    /\ UNCHANGED <<sas, saPool, activeIdx, Files, serviceAccountBlacklist>>
    /\ IF Len(svcs[p]) = 0
       THEN /\ last' = [Call("GetService", p, "", <<>>, FALSE, "")
                           EXCEPT !.err = "no available preloaded services"]
            /\ UNCHANGED <<svcs, born>>
       ELSE /\ last' = Call("GetService", p, "", <<>>, TRUE, svcs[p][1].Service)
            /\ svcs' = [svcs EXCEPT ![p] = Rotate(@)]
            /\ born' = [born EXCEPT ![p] = Rotate(@)]

GetClient(p) ==
    /\ UNCHANGED <<sas, saPool, activeIdx, Files, serviceAccountBlacklist>>
    /\ IF Len(svcs[p]) = 0
       THEN /\ last' = [Call("GetClient", p, "", <<>>, FALSE, "")
                           EXCEPT !.err = "no available preloaded services"]
            /\ UNCHANGED <<svcs, born>>
       ELSE /\ last' = Call("GetClient", p, "", <<>>, TRUE, svcs[p][1].Client)
            /\ svcs' = [svcs EXCEPT ![p] = Rotate(@)]
            /\ born' = [born EXCEPT ![p] = Rotate(@)]

\* The loop of PreloadServices over the files in the order keys, from the
\* i-th on: createDriveService fails on the files of failing.
RECURSIVE Preloaded(_, _, _, _, _)
Preloaded(keys, i, failing, count, built) ==
    IF i > Len(keys) \/ Len(built) >= count THEN built
    ELSE IF keys[i] \in failing
    THEN Preloaded(keys, i + 1, failing, count, built)
    ELSE Preloaded(keys, i + 1, failing, count, Append(built, Pair(keys[i])))

PreloadServices(p, count) ==
    \E keys \in Orders(Files[p]), failing \in SUBSET Files[p] :
        LET built == Preloaded(keys, 1, failing, count, <<>>)
        IN  /\ Len(built) + Len(svcs[p]) <= MaxSvcs
            /\ svcs' = [svcs EXCEPT ![p] = built \o @]
            /\ born' = [born EXCEPT ![p] =
                           [i \in 1 .. Len(built) |-> Len(@) + i] \o @]
            /\ last' = [Call("PreloadServices", p, "", built, TRUE, "")
                            EXCEPT !.n = count]
            /\ UNCHANGED <<sas, saPool, activeIdx, Files, serviceAccountBlacklist>>

\* The pool the preloaded services are exercised on.
CachePool == "p1"

\* Load of a directory with no active file configured: it fills Files and
\* leaves the rotation index alone.
DoLoadFiles ==
    /\ \E l \in Listings : Load(CachePool, "/sa", FALSE, l, "")
    /\ UNCHANGED <<now, callerVars>>

DoAddService ==
    /\ mu[CachePool] = NoThread
    /\ \E h \in HandleNames :
          AddService(CachePool, Pair(h).Client, Pair(h).Service)
    /\ UNCHANGED <<now, callerVars>>

DoGetService ==
    /\ mu[CachePool] = NoThread
    /\ GetService(CachePool)
    /\ UNCHANGED <<now, callerVars>>

DoGetClient ==
    /\ mu[CachePool] = NoThread
    /\ GetClient(CachePool)
    /\ UNCHANGED <<now, callerVars>>

DoPreloadServices ==
    /\ mu[CachePool] = NoThread
    /\ \E count \in 0 .. MaxCount : PreloadServices(CachePool, count)
    /\ UNCHANGED <<now, callerVars>>

InitCache == \E max \in 1 .. MaxMax : InitMax(max)

NextCache ==
    \/ DoLoadFiles
    \/ DoAddService
    \/ DoGetService
    \/ DoGetClient
    \/ DoPreloadServices

SpecCache == InitCache /\ [][NextCache]_vars

\* The engine only hands services in (AddService) and takes them out
\* (GetService, GetClient); nothing is preloaded.
NextOffer ==
    \/ DoAddService
    \/ DoGetService
    \/ DoGetClient

SpecOffer == InitCache /\ [][NextOffer]_vars

\* ------------------------------------------------------ concurrent callers

\* The methods that take p.mu (p.mu.Lock(); defer p.mu.Unlock()).
LockedOps ==
    {"AddService", "GetService", "GetClient", "PreloadServices", "GetFile"}

\* The methods that assign to a field of the pool.
MutatingOps ==
    {"updateSas", "activeSa", "staleSa", "revertStaleSa", "Load",
     "AddService", "GetService", "GetClient", "PreloadServices", "GetFile"}

\* The fields of the pool a method reads and writes.
Reads(op) ==
    CASE op = "updateSas" -> {"saPool", "sas"}
      [] op = "rollup" -> {"sas", "activeIdx"}
      [] op = "activeSa" -> {"saPool"}
      [] op = "staleSa" -> {"sas", "saPool", "activeIdx"}
      [] op = "revertStaleSa" -> {"sas"}
      [] op = "Load" -> {"Files", "saPool", "sas"}
      [] op = "PreloadServices" -> {"Files", "svcs"}
      [] op = "GetFile" -> {"Files"}
      [] op \in {"AddService", "GetService", "GetClient"} -> {"svcs"}
      [] OTHER -> {}

Writes(op) ==
    CASE op = "updateSas" -> {"sas", "saPool", "activeIdx"}
      [] op = "activeSa" -> {"activeIdx"}
      [] op = "staleSa" -> {"sas", "saPool", "activeIdx"}
      [] op = "revertStaleSa" -> {"sas", "saPool"}
      [] op = "Load" -> {"Files", "sas", "saPool", "activeIdx"}
      [] op = "GetFile" -> {"Files"}
      [] op \in {"AddService", "GetService", "GetClient", "PreloadServices"}
            -> {"svcs"}
      [] OTHER -> {}

\* The calls a goroutine can make on pool p.
Commands(p) ==
    {Cmd("updateSas", p, a, d, 0, "", FALSE) :
        a \in Ids \cup {""}, d \in DataLists \cup {<<>>}}
    \cup {Cmd("rollup", p, "", <<>>, 0, "", FALSE)}
    \cup {Cmd(op, p, t, <<>>, 0, "", FALSE) :
            op \in {"activeSa", "staleSa", "revertStaleSa"}, t \in Targets}
    \cup {Cmd("Load", p, a, c.entries, 0, c.folder, c.readErr) :
            a \in ActiveFiles, c \in LoadCases}
    \cup {Cmd("GetFile", p, x, <<>>, 0, "", FALSE) : x \in ExcludeArgs}
    \cup {Cmd("AddService", p, h, <<>>, 0, "", FALSE) : h \in HandleNames}
    \cup {Cmd(op, p, "", <<>>, 0, "", FALSE) : op \in {"GetService", "GetClient"}}
    \cup {Cmd("PreloadServices", p, "", <<>>, n, "", FALSE) : n \in 0 .. MaxCount}

\* The body of call c.
Exec(c) ==
    \/ c.op = "updateSas" /\ updateSas(c.p, c.data, c.arg)
    \/ c.op = "rollup" /\ rollup(c.p)
    \/ c.op = "activeSa" /\ activeSa(c.p, c.arg)
    \/ c.op = "staleSa" /\ staleSa(c.p, c.arg)
    \/ c.op = "revertStaleSa" /\ revertStaleSa(c.p, c.arg)
    \/ c.op = "Load" /\ Load(c.p, c.folder, c.readErr, c.data, c.arg)
    \/ c.op = "GetFile" /\ GetFile(c.p, c.arg)
    \/ c.op = "AddService" /\ AddService(c.p, Pair(c.arg).Client, Pair(c.arg).Service)
    \/ c.op = "GetService" /\ GetService(c.p)
    \/ c.op = "GetClient" /\ GetClient(c.p)
    \/ c.op = "PreloadServices" /\ PreloadServices(c.p, c.n)

\* Goroutines t and u are inside calls on the same pool that touch a common
\* field, one of them writing it, and not both under the mutex.
Racing(t, u) ==
    /\ t # u
    /\ pc[t] # Idle
    /\ pc[u] # Idle
    /\ pc[t].p = pc[u].p
    /\ ~(mu[pc[t].p] = t /\ pc[u].op \in LockedOps)
    /\ ~(mu[pc[u].p] = u /\ pc[t].op \in LockedOps)
    /\ \/ Writes(pc[t].op) \cap (Reads(pc[u].op) \cup Writes(pc[u].op)) # {}
       \/ Writes(pc[u].op) \cap Reads(pc[t].op) # {}

DataRace == \E t, u \in Threads : Racing(t, u)

\* The pool the goroutines call into.
ConcPool == "p1"

\* Goroutine t enters a method; a method of LockedOps first acquires p.mu.
Enter(t) ==
    /\ ~crashed
    /\ pc[t] = Idle
    /\ ncalls < MaxCalls
    /\ \E c \in Commands(ConcPool) :
          /\ c.op \in LockedOps => mu[c.p] = NoThread
          /\ pc' = [pc EXCEPT ![t] = c]
          /\ mu' = IF c.op \in LockedOps THEN [mu EXCEPT ![c.p] = t] ELSE mu
    /\ ncalls' = ncalls + 1
    /\ UNCHANGED <<sas, saPool, activeIdx, Files, serviceAccountBlacklist,
                   svcs, born, Max, now, last, crashed>>

\* Goroutine t runs the body of its method and returns; the deferred Unlock
\* releases p.mu.  When the call races with another one this is one of the
\* outcomes; Abort is another.
Leave(t) ==
    /\ ~crashed
    /\ pc[t] # Idle
    /\ Exec(pc[t])
    /\ pc' = [pc EXCEPT ![t] = Idle]
    /\ mu' = IF mu[pc[t].p] = t THEN [mu EXCEPT ![pc[t].p] = NoThread] ELSE mu
    /\ UNCHANGED <<Max, now, crashed, ncalls>>

\* The runtime detects the unsynchronised map access of two racing calls and
\* ends the process (fatal error: concurrent map read and map write).
Abort(t) ==
    /\ ~crashed
    /\ \E u \in Threads : Racing(t, u)
    /\ crashed' = TRUE
    /\ UNCHANGED <<sas, saPool, activeIdx, Files, serviceAccountBlacklist,
                   svcs, born, Max, mu, now, last, pc, ncalls>>

NextConc ==
    \/ \E t \in Threads : Enter(t)
    \/ \E t \in Threads : Leave(t)
    \/ \E t \in Threads : Abort(t)
    \/ Tick

SpecConc == Init /\ [][NextConc]_vars

\* ------------------------------------------ PreloadServices, step by step

\* Goroutine inside PreloadServices(f, count) on pool p, holding p.mu: keys
\* are the files the range over p.Files has not reached yet, tried the files
\* createDriveService was called on, built the services made so far (the
\* local svcs); stage is "loop" at the head of the loop and "create" inside
\* createDriveService (os.ReadFile and the OAuth client).
Preloading(p, count, keys, tried, built, stage) ==
    [op |-> "PreloadServices", p |-> p, n |-> count, data |-> keys,
     tried |-> tried, built |-> built, stage |-> stage]

\* Goroutine blocked in p.mu.Lock() at the start of call c.
Waiting(c) == [op |-> "mu.Lock", p |-> c.p, call |-> c]

\* The loop that stops one service too late.
preloadDoneLate(keys, built, count) == keys = <<>> \/ Len(built) > count

\* The range is over, or len(svcs) >= count.
preloadDone(keys, built, count) == keys = <<>> \/ Len(built) >= count

preloadEnter(t) ==
    /\ pc[t] = Idle
    /\ mu[CachePool] = NoThread
    /\ ncalls < MaxCalls
    /\ ncalls' = ncalls + 1
    /\ \E count \in 0 .. MaxCount, keys \in Orders(Files[CachePool]) :
          /\ count + Len(svcs[CachePool]) <= MaxSvcs
          /\ pc' = [pc EXCEPT ![t] =
                       Preloading(CachePool, count, keys, <<>>, <<>>, "loop")]
    /\ mu' = [mu EXCEPT ![CachePool] = t]
    /\ UNCHANGED <<sas, saPool, activeIdx, Files, serviceAccountBlacklist,
                   svcs, born, Max, now, last, crashed>>

\* The loop goes on: createDriveService(p.ctx, &f.opt, file) is called.
preloadCreate(t) ==
    /\ pc[t].op = "PreloadServices"
    /\ pc[t].stage = "loop"
    /\ ~preloadDone(pc[t].data, pc[t].built, pc[t].n)
    /\ pc' = [pc EXCEPT ![t].stage = "create",
                        ![t].tried = Append(@, Head(pc[t].data))]
    /\ UNCHANGED <<sas, saPool, activeIdx, Files, serviceAccountBlacklist,
                   svcs, born, Max, mu, now, last, crashed, ncalls>>

\* createDriveService returns: an error (the file is skipped) or a service.
preloadCreated(t) ==
    /\ pc[t].op = "PreloadServices"
    /\ pc[t].stage = "create"
    /\ \E failed \in BOOLEAN :
          pc' = [pc EXCEPT ![t].stage = "loop",
                           ![t].data = Tail(@),
                           ![t].built = IF failed THEN @
                                        ELSE Append(@, Pair(Head(pc[t].data)))]
    /\ UNCHANGED <<sas, saPool, activeIdx, Files, serviceAccountBlacklist,
                   svcs, born, Max, mu, now, last, crashed, ncalls>>

\* p.svcs = append(svcs, p.svcs...), the return and the deferred Unlock.
preloadExit(t) ==
    /\ pc[t].op = "PreloadServices"
    /\ pc[t].stage = "loop"
    /\ preloadDone(pc[t].data, pc[t].built, pc[t].n)
    /\ svcs' = [svcs EXCEPT ![pc[t].p] = pc[t].built \o @]
    /\ born' = [born EXCEPT ![pc[t].p] =
                   [i \in 1 .. Len(pc[t].built) |-> Len(@) + i] \o @]
    /\ last' = [Call("PreloadServices", pc[t].p, "", pc[t].built, TRUE, "")
                    EXCEPT !.n = pc[t].n]
    /\ pc' = [pc EXCEPT ![t] = Idle]
    /\ mu' = [mu EXCEPT ![pc[t].p] = NoThread]
    /\ UNCHANGED <<sas, saPool, activeIdx, Files, serviceAccountBlacklist,
                   Max, now, crashed, ncalls>>

\* The calls other goroutines make meanwhile: each begins with p.mu.Lock().
LockedCalls(p) ==
    {Cmd("AddService", p, h, <<>>, 0, "", FALSE) : h \in HandleNames}
    \cup {Cmd(op, p, "", <<>>, 0, "", FALSE) : op \in {"GetService", "GetClient"}}
    \cup {Cmd("GetFile", p, "", <<>>, 0, "", FALSE)}

\* Goroutine t calls p.mu.Lock().
lockWait(t) ==
    /\ pc[t] = Idle
    /\ ncalls < MaxCalls
    /\ ncalls' = ncalls + 1
    /\ \E c \in LockedCalls(CachePool) : pc' = [pc EXCEPT ![t] = Waiting(c)]
    /\ UNCHANGED <<sas, saPool, activeIdx, Files, serviceAccountBlacklist,
                   svcs, born, Max, mu, now, last, crashed>>

\* Lock returns once the mutex is free; the call runs and unlocks.
lockRun(t) ==
    /\ pc[t].op = "mu.Lock"
    /\ mu[pc[t].p] = NoThread
    /\ Exec(pc[t].call)
    /\ pc' = [pc EXCEPT ![t] = Idle]
    /\ UNCHANGED <<Max, mu, now, crashed, ncalls>>

\* The files are loaded when the backend is configured, before the calls.
LoadCache == ncalls = 0 /\ DoLoadFiles

NextPreload ==
    \/ LoadCache
    \/ \E t \in Threads : preloadEnter(t)
    \/ \E t \in Threads : preloadCreate(t)
    \/ \E t \in Threads : preloadCreated(t)
    \/ \E t \in Threads : preloadExit(t)
    \/ \E t \in Threads : lockWait(t)
    \/ \E t \in Threads : lockRun(t)

SpecPreload == InitCache /\ [][NextPreload]_vars

\* ------------------------------------------- pools sharing the blacklist

\* Each pool has its own mutex, so GetFile calls on different pools run at
\* the same time; serviceAccountBlacklist is a sync.Map, each of whose Store,
\* Load and Delete is atomic.  _getFile is therefore taken one access to the
\* map at a time.

\* The goroutine t calls into its own pool.
PoolOf(t) == IF t = "t1" THEN "p1" ELSE "p2"

\* Goroutine inside _getFile(arg) on pool p: keys are the permuted keys not
\* yet examined; stage is "load" before serviceAccountBlacklist.Load of the
\* first of them and "delete" before its serviceAccountBlacklist.Delete.
Selecting(p, arg, keys, stage, removed, prior) ==
    [op |-> "_getFile", p |-> p, arg |-> arg, data |-> keys, stage |-> stage,
     removed |-> removed, prior |-> prior]

\* The return of _getFile, with GetFile's deferred Unlock.
getFileReturn(t, ok, out, err, purged) ==
    /\ last' = [Call("GetFile", pc[t].p, pc[t].arg, <<>>, ok, out)
                    EXCEPT !.err = err, !.purged = purged,
                           !.removed = pc[t].removed, !.prior = pc[t].prior]
    /\ pc' = [pc EXCEPT ![t] = Idle]
    /\ mu' = [mu EXCEPT ![pc[t].p] = NoThread]

\* GetFile takes p.mu; _getFile stores and removes excludeFile, returns the
\* first error if no file is left, and otherwise permutes the keys.
getFileEnter(t) ==
    LET p == PoolOf(t)
    IN  /\ pc[t] = Idle
        /\ mu[p] = NoThread
        /\ ncalls < MaxSelects
        /\ ncalls' = ncalls + 1
        /\ \E excludeFile \in ExcludeArgs :
              LET files1 == IF excludeFile # "" THEN Files[p] \ {excludeFile}
                            ELSE Files[p]
              IN  /\ serviceAccountBlacklist' =
                        StoreExcluded(serviceAccountBlacklist, excludeFile, now)
                  /\ Files' = [Files EXCEPT ![p] = files1]
                  /\ IF Cardinality(files1) = 0
                     THEN /\ last' = [Call("GetFile", p, excludeFile, <<>>, FALSE, "")
                                         EXCEPT !.err = NoCandidates,
                                                !.removed = files1 # Files[p],
                                                !.prior = PriorTime(
                                                    serviceAccountBlacklist,
                                                    excludeFile)]
                          /\ UNCHANGED <<pc, mu>>
                     ELSE /\ \E keys \in Orders(files1) :
                               pc' = [pc EXCEPT ![t] =
                                        Selecting(p, excludeFile, keys, "load",
                                                  files1 # Files[p],
                                                  PriorTime(
                                                      serviceAccountBlacklist,
                                                      excludeFile))]
                          /\ mu' = [mu EXCEPT ![p] = t]
                          /\ UNCHANGED last
        /\ UNCHANGED <<sas, saPool, activeIdx, svcs, born, Max, now, crashed>>

\* One turn of the loop: serviceAccountBlacklist.Load(file) and the test.
getFileLoad(t) ==
    /\ pc[t].op = "_getFile"
    /\ pc[t].stage = "load"
    /\ LET file == Head(pc[t].data)
           bl == serviceAccountBlacklist
       IN  IF file \notin DOMAIN bl
           THEN getFileReturn(t, TRUE, file, "", FALSE)
           ELSE IF Expired(bl[file], now)
           THEN /\ pc' = [pc EXCEPT ![t].stage = "delete"]
                /\ UNCHANGED <<last, mu>>
           ELSE IF Len(pc[t].data) = 1
           THEN getFileReturn(t, FALSE, "", AllBlacklisted, FALSE)
           ELSE /\ pc' = [pc EXCEPT ![t].data = Tail(@)]
                /\ UNCHANGED <<last, mu>>
    /\ UNCHANGED <<sas, saPool, activeIdx, Files, serviceAccountBlacklist,
                   svcs, born, Max, now, crashed, ncalls>>

\* serviceAccountBlacklist.Delete(file) of the entry found expired, and the
\* return of file.
getFileDelete(t) ==
    /\ pc[t].op = "_getFile"
    /\ pc[t].stage = "delete"
    /\ serviceAccountBlacklist' =
          MapDelete(serviceAccountBlacklist, Head(pc[t].data))
    /\ getFileReturn(t, TRUE, Head(pc[t].data), "", TRUE)
    /\ UNCHANGED <<sas, saPool, activeIdx, Files, svcs, born, Max, now,
                   crashed, ncalls>>

\* Each backend loads the same directory when it is configured, before the
\* first GetFile.
LoadShared(p) ==
    /\ ncalls = 0
    /\ \E l \in Listings : Load(p, "/sa", FALSE, l, "")
    /\ UNCHANGED <<now, callerVars>>

\* Hours pass between calls, not within one.
TickQuiet == (\A t \in Threads : pc[t] = Idle) /\ Tick

NextShared ==
    \/ \E p \in Pools : LoadShared(p)
    \/ \E t \in Threads : getFileEnter(t)
    \/ \E t \in Threads : getFileLoad(t)
    \/ \E t \in Threads : getFileDelete(t)
    \/ TickQuiet

SpecShared == Init /\ [][NextShared]_vars

\* ------------------------------------------------- rotation index: claims

\* The indices of the entries that are not stale.
NonStale(s) == {i \in DOMAIN s : ~s[i].isStale}

\* C3: rollup never returns the path of an entry whose stale flag is set, and
\* returns "" whenever every entry is stale.
C3_RollupSkipsStale ==
    last.op = "rollup" =>
        LET s == sas[last.p]
        IN  /\ \A i \in DOMAIN s : s[i].isStale => s[i].saPath # last.out
            /\ NonStale(s) = {} => last.out = ""
            /\ last.out # "" => \E i \in NonStale(s) : s[i].saPath = last.out

\* rollup returned a path although the entry right after the active one is
\* stale: that entry was skipped.
C3_Witness ==
    /\ last.op = "rollup"
    /\ last.out # ""
    /\ activeIdx[last.p] + 1 \in DOMAIN sas[last.p]
    /\ sas[last.p][activeIdx[last.p] + 1].isStale

\* C4: the keys of saPool are exactly the paths of the entries that are not
\* stale, each mapped to its own index.
C4_ReverseMapIsNonStale ==
    \A p \in Pools :
        /\ DOMAIN saPool[p] = {sas[p][i].saPath : i \in NonStale(sas[p])}
        /\ \A id \in DOMAIN saPool[p] :
              /\ saPool[p][id] \in DOMAIN sas[p]
              /\ sas[p][saPool[p][id]].saPath = id

\* C7: after updateSas with a non-empty list and a non-empty active path, the
\* active entry carries that path: at its place in the list, or appended
\* right after the last listed entry.
C7_UpdateSasActivates ==
    (last.op = "updateSas" /\ last.data # <<>> /\ last.arg # "") =>
        LET p == last.p
            a == activeIdx[p]
            n == Len(last.data)
        IN  /\ a \in DOMAIN sas[p]
            /\ sas[p][a].saPath = last.arg
            /\ last.arg \in Range(last.data) =>
                  /\ a < n
                  /\ last.data[a + 1] = last.arg
                  /\ DOMAIN sas[p] = 0 .. n - 1
            /\ last.arg \notin Range(last.data) =>
                  /\ a = n
                  /\ DOMAIN sas[p] = 0 .. n
            /\ \A i \in 0 .. n - 1 : sas[p][i].saPath = last.data[i + 1]

\* updateSas appended the active path, which the list did not hold.
C7_Witness ==
    /\ last.op = "updateSas"
    /\ Len(last.data) = 2
    /\ last.arg # ""
    /\ last.arg \notin Range(last.data)
    /\ activeIdx[last.p] = 2

\* C8: updateSas with an empty list or an empty active path changes nothing
\* of the index.
C8_UpdateSasEmptyIsNoop ==
    [][(last'.op = "updateSas" /\ (last'.data = <<>> \/ last'.arg = ""))
          => UNCHANGED <<sas, saPool, activeIdx>>]_vars

\* updateSas with an empty active path was called on an index that holds
\* entries, one of them stale.
C8_Witness ==
    /\ last.op = "updateSas"
    /\ last.arg = ""
    /\ last.data # <<>>
    /\ DOMAIN sas[last.p] # {}
    /\ NonStale(sas[last.p]) # DOMAIN sas[last.p]

\* C9: staleSa on the active entry (empty target) or on a known non-stale
\* target, while another non-stale entry exists, returns (false, x) with x
\* another path, non-stale and now active; one entry fewer is non-stale and
\* no entry has left sas.
C9_StaleSaPicksAnother ==
    [][LET p == last'.p
           t0 == last'.arg
           tgt == IF t0 = "" THEN SasGet(sas[p], activeIdx[p]).saPath ELSE t0
           onActive == t0 = "" /\ activeIdx[p] \in DOMAIN sas[p]
           onKnown == t0 # "" /\ \E i \in NonStale(sas[p]) : sas[p][i].saPath = tgt
           other == \E i \in NonStale(sas[p]) : sas[p][i].saPath # tgt
       IN  (last'.op = "staleSa" /\ (onActive \/ onKnown) /\ other) =>
              /\ last'.ok = FALSE
              /\ last'.out # tgt
              /\ \E i \in NonStale(sas'[p]) : sas'[p][i].saPath = last'.out
              /\ SasGet(sas'[p], activeIdx'[p]).saPath = last'.out
              /\ Cardinality(NonStale(sas'[p])) = Cardinality(NonStale(sas[p])) - 1
              /\ DOMAIN sas'[p] = DOMAIN sas[p]
              /\ \A i \in DOMAIN sas[p] : sas'[p][i].saPath = sas[p][i].saPath]_vars

\* C10: when staleSa stales the last non-stale entry it returns (true, "")
\* and activeIdx becomes -1; while every entry stays stale, rollup returns "".
C10_StaleSaExhausts ==
    [][LET p == last'.p
       IN  /\ (/\ last'.op = "staleSa"
               /\ Cardinality(NonStale(sas[p])) = 1
               /\ NonStale(sas'[p]) = {}) =>
                  /\ last'.ok = TRUE
                  /\ last'.out = ""
                  /\ activeIdx'[p] = -1
           /\ (/\ last'.op = "rollup"
               /\ DOMAIN sas[p] # {}
               /\ NonStale(sas[p]) = {}) => last'.out = ""]_vars

\* The indices of the entries of s whose path is str.
EntriesOf(s, str) == {i \in DOMAIN s : s[i].saPath = str}

\* C25: revertStaleSa(t), for t the path of a stale entry, clears that
\* entry's flag and sets saPool[t] to the entry's index, and changes neither
\* activeIdx nor any other entry of sas or saPool; and when it follows
\* staleSa(t) made on an entry t that was not stale, sas and saPool are again
\* what they were before that staleSa.
C25_RevertRestores ==
    [][last'.op = "revertStaleSa" =>
          LET p == last'.p
              t == last'.arg
              s == sas[p]
              m == saPool[p]
          IN  /\ \A i \in EntriesOf(s, t) :
                    s[i].isStale =>
                        /\ sas'[p] = [s EXCEPT ![i].isStale = FALSE]
                        /\ saPool'[p] = MapPut(m, t, i)
                        /\ \A k \in DOMAIN m \ {t} : saPool'[p][k] = m[k]
                        /\ activeIdx' = activeIdx
              /\ (/\ last.op = "staleSa"
                  /\ last.p = p
                  /\ last.arg = t
                  /\ \E i \in NonStale(last.before.sas) :
                        last.before.sas[i].saPath = t) =>
                     /\ sas'[p] = last.before.sas
                     /\ saPool'[p] = last.before.saPool]_vars

\* revertStaleSa(t) right after staleSa(t) of an entry that was not stale:
\* the entry was stale and out of saPool when the call began, and is now
\* not stale and back in saPool at its index.
C25_Witness ==
    /\ last.op = "revertStaleSa"
    /\ last.undoes
    /\ last.arg \notin DOMAIN last.before.saPool
    /\ \E i \in EntriesOf(sas[last.p], last.arg) :
          /\ last.before.sas[i].isStale
          /\ ~sas[last.p][i].isStale
          /\ saPool[last.p][last.arg] = i
          /\ i > 0
    /\ Cardinality(DOMAIN saPool[last.p]) = 2

\* C26: rollup changes neither activeIdx nor sas nor saPool, and a rollup
\* made right after a rollup on the same pool returns the same path.
C26_RollupReadOnly ==
    [][last'.op = "rollup" =>
          /\ activeIdx' = activeIdx
          /\ sas' = sas
          /\ saPool' = saPool
          /\ (last.op = "rollup" /\ last.p = last'.p) =>
                 last'.out = last.out]_vars

\* rollup returned the path of an entry other than the active one, which
\* is still the active one.
C26_Witness ==
    /\ last.op = "rollup"
    /\ last.out # ""
    /\ activeIdx[last.p] \in DOMAIN sas[last.p]
    /\ sas[last.p][activeIdx[last.p]].saPath # last.out
    /\ last.out \in DOMAIN saPool[last.p]
    /\ saPool[last.p][last.out] # activeIdx[last.p]

\* C29: staleSa(target) changes the stale flag of no entry but the one whose
\* path is target (the active entry for target ""), and of no entry at all
\* when target is the path of no entry, the path of a stale entry, or ""
\* while activeIdx is -1.
C29_StaleSaFlagFrame ==
    [][last'.op = "staleSa" =>
          LET p == last'.p
              t0 == last'.arg
              s == sas[p]
              changed == {i \in DOMAIN s : sas'[p][i].isStale # s[i].isStale}
              aimed == IF t0 = ""
                       THEN {activeIdx[p]} \cap DOMAIN s
                       ELSE EntriesOf(s, t0)
          IN  /\ DOMAIN sas'[p] = DOMAIN s
              /\ changed \subseteq aimed
              /\ (t0 # "" /\ EntriesOf(s, t0) = {}) => changed = {}
              /\ (t0 # "" /\ \A i \in EntriesOf(s, t0) : s[i].isStale)
                    => changed = {}
              /\ (t0 = "" /\ activeIdx[p] = -1) => changed = {}]_vars

\* C30: whenever activeIdx is not -1 and sas is not empty, the active entry
\* is an entry of sas that is not stale.
C30_ActiveNotStale ==
    \A p \in Pools :
        (activeIdx[p] # -1 /\ DOMAIN sas[p] # {}) =>
            /\ activeIdx[p] \in DOMAIN sas[p]
            /\ ~sas[p][activeIdx[p]].isStale

\* C31: rollup returns "" only when every entry of sas is stale; whenever
\* some entry is not stale, the active one included, it returns the path of
\* an entry that is not stale.
C31_RollupEmptyOnlyIfAllStale ==
    last.op = "rollup" =>
        LET s == sas[last.p]
        IN  /\ last.out = "" => NonStale(s) = {}
            /\ NonStale(s) # {} =>
                  \E i \in NonStale(s) : s[i].saPath = last.out

\* C21: activeIdx is -1 or the index of an entry of sas, in every state of a
\* pool, the state of a new pool included.
C21_ActiveIdxValid ==
    \A p \in Pools : activeIdx[p] = -1 \/ activeIdx[p] \in DOMAIN sas[p]

\* The paths of the entries of the index s.
PathsOf(s) == {s[i].saPath : i \in DOMAIN s}

\* C11: activeSa and revertStaleSa with a path that no entry of the index
\* carries, and revertStaleSa with the empty path, return without an error
\* and leave sas (entries and stale flags), saPool and activeIdx unchanged.
C11_UnknownIsNoop ==
    [][LET p == last'.p
           unknown == last'.arg \notin PathsOf(sas[p])
       IN  (\/ last'.op = "activeSa" /\ unknown
            \/ last'.op = "revertStaleSa" /\ (unknown \/ last'.arg = ""))
           => /\ last'.ok
              /\ last'.err = ""
              /\ UNCHANGED <<sas, saPool, activeIdx>>]_vars

\* revertStaleSa was called with a path that was never loaded, on an index
\* whose entry 0 is stale and which has a non-stale active entry.
C11_Witness ==
    /\ last.op = "revertStaleSa"
    /\ last.arg = Unknown
    /\ 0 \in DOMAIN sas[last.p]
    /\ sas[last.p][0].isStale
    /\ activeIdx[last.p] \in NonStale(sas[last.p])

\* C12: with N >= 1 entries none of which is stale, rollup followed by
\* activeSa of its result moves activeIdx to its successor modulo N (from N-1
\* to 0, and from -1 to 0), so N such steps activate every entry once, in
\* increasing index order.
C12_RollingOrder ==
    [][LET p == last'.p
           N == Cardinality(DOMAIN sas[p])
       IN  (/\ last'.op = "activeSa"
            /\ last'.rolled
            /\ N >= 1
            /\ NonStale(sas[p]) = DOMAIN sas[p])
           => /\ activeIdx'[p] = (activeIdx[p] + 1) % N
              /\ activeIdx'[p] \in DOMAIN sas'[p]
              /\ N > 1 => sas'[p][activeIdx'[p]].saPath = last'.arg
              /\ UNCHANGED <<sas, saPool>>]_vars

\* The rolling step wrapped around: in an index of three entries, none
\* stale, activeSa of the rollup result made entry 0 active.
C12_Witness ==
    /\ last.op = "activeSa"
    /\ last.rolled
    /\ DOMAIN sas[last.p] = 0 .. 2
    /\ NonStale(sas[last.p]) = DOMAIN sas[last.p]
    /\ activeIdx[last.p] = 0
    /\ last.arg = sas[last.p][0].saPath

\* ------------------------------------------------------- file pool: claims

\* C1: GetFile never returns a file whose blacklist entry is less than 25
\* hours old at the call; a file of Files whose entry is more than 25 hours
\* old is eligible, so the call succeeds when one remains; and the returned
\* file has no blacklist entry afterwards.
C1_BlacklistTTL ==
    [][last'.op = "GetFile" =>
          LET p == last'.p
              bl == serviceAccountBlacklist
              expired == {f \in Files'[p] :
                            f \in DOMAIN bl /\ now - bl[f] > blacklistDuration}
          IN  /\ last'.ok =>
                    /\ last'.out \in DOMAIN bl =>
                          ~(now - bl[last'.out] < blacklistDuration)
                    /\ last'.out \notin DOMAIN serviceAccountBlacklist'
                    /\ last'.purged <=> last'.out \in expired
              /\ expired # {} => last'.ok]_vars

\* GetFile returned a file whose entry had expired and purged the entry,
\* passing over another file of Files that is still blacklisted.
C1_Witness ==
    /\ last.op = "GetFile"
    /\ last.ok
    /\ last.purged
    /\ \E f \in Files[last.p] :
          /\ f # last.out
          /\ f \in DOMAIN serviceAccountBlacklist
          /\ now - serviceAccountBlacklist[f] < blacklistDuration

\* C2: GetFile(x) with x # "" records exactly the key x in the blacklist, at
\* the time of the call, never writes the key "", removes x from Files and
\* never returns x, also when x was the only candidate and the call fails.
C2_ExcludedIsBlacklisted ==
    [][last'.op = "GetFile" =>
          LET p == last'.p
              x == last'.arg
              bl == serviceAccountBlacklist
          IN  /\ "" \notin DOMAIN serviceAccountBlacklist'
              /\ x = "" => DOMAIN serviceAccountBlacklist' \subseteq DOMAIN bl
              /\ x # "" =>
                    /\ x \in DOMAIN serviceAccountBlacklist'
                    /\ serviceAccountBlacklist'[x] = now
                    /\ DOMAIN serviceAccountBlacklist' \ DOMAIN bl \subseteq {x}
                    /\ x \notin Files'[p]
                    /\ Files'[p] = Files[p] \ {x}
                    /\ last'.out # x
                    /\ Files[p] \subseteq {x} => ~last'.ok]_vars

\* GetFile excluded the only file of Files: the call failed for want of a
\* candidate and the file is blacklisted.
C2_Witness ==
    /\ last.op = "GetFile"
    /\ last.arg # ""
    /\ last.removed
    /\ ~last.ok
    /\ last.err = NoCandidates
    /\ Files[last.p] = {}
    /\ last.arg \in DOMAIN serviceAccountBlacklist
    /\ serviceAccountBlacklist[last.arg] = now

\* C13: GetFile fails with NoCandidates exactly when Files is empty after the
\* exclusion, with AllBlacklisted exactly when Files is not empty and every
\* file of it has a blacklist entry that has not expired, and otherwise
\* returns a file of Files.
C13_ErrorKinds ==
    [][last'.op = "GetFile" =>
          LET p == last'.p
              bl == serviceAccountBlacklist
              files1 == Files[p] \ ({last'.arg} \ {""})
              blocked == {f \in files1 :
                            f \in DOMAIN bl /\ now - bl[f] <= blacklistDuration}
          IN  /\ last'.err = NoCandidates <=> files1 = {}
              /\ last'.err = AllBlacklisted <=>
                    (files1 # {} /\ blocked = files1)
              /\ last'.ok <=> (files1 # {} /\ blocked # files1)
              /\ last'.ok <=> last'.err = ""
              /\ last'.ok => last'.out \in files1 \ blocked
              /\ ~last'.ok => last'.out = ""]_vars

\* GetFile failed with AllBlacklisted: two files were left and both have an
\* entry, one of them exactly 25 hours old.
C13_Witness ==
    /\ last.op = "GetFile"
    /\ last.err = AllBlacklisted
    /\ Cardinality(Files[last.p]) = 2
    /\ \E f \in Files[last.p] :
          /\ f \in DOMAIN serviceAccountBlacklist
          /\ now - serviceAccountBlacklist[f] = blacklistDuration

\* C14: GetFile("") adds no key to the blacklist and leaves Files unchanged;
\* the file it returns stays in Files.
C14_EmptyExcludeFrame ==
    [][(last'.op = "GetFile" /\ last'.arg = "") =>
          /\ DOMAIN serviceAccountBlacklist' \subseteq
                DOMAIN serviceAccountBlacklist
          /\ \A f \in DOMAIN serviceAccountBlacklist' :
                serviceAccountBlacklist'[f] = serviceAccountBlacklist[f]
          /\ Files' = Files
          /\ last'.ok => last'.out \in Files'[last'.p]
          /\ ~last'.removed]_vars

\* GetFile("") returned a file, which is still in Files together with
\* another one, while the blacklist holds an entry.
C14_Witness ==
    /\ last.op = "GetFile"
    /\ last.arg = ""
    /\ last.ok
    /\ last.out \in Files[last.p]
    /\ Cardinality(Files[last.p]) = 2
    /\ DOMAIN serviceAccountBlacklist # {}

\* C18: the blacklist is shared by the pools.  Once GetFile(x) has returned
\* on one pool, GetFile on another pool does not return x while the entry is
\* 25 hours old or less; and a GetFile call changes the rotation index, Files
\* and svcs of no pool but its own.
C18_SharedBlacklist ==
    [][\A t \in Threads :
          LET q == PoolOf(t)
              bl == serviceAccountBlacklist
              returns == pc[t] # Idle /\ pc'[t] = Idle
              acts == \/ pc'[t] # pc[t]
                      \/ last' # last /\ last'.op = "GetFile" /\ last'.p = q
          IN  /\ (/\ returns
                  /\ last'.ok
                  /\ last'.out \in DOMAIN bl
                  /\ \A u \in Threads \ {t} : pc[u] = Idle)
                 => now - bl[last'.out] > blacklistDuration
              /\ acts => \A o \in Pools \ {q} :
                    /\ sas'[o] = sas[o]
                    /\ saPool'[o] = saPool[o]
                    /\ activeIdx'[o] = activeIdx[o]
                    /\ Files'[o] = Files[o]
                    /\ svcs'[o] = svcs[o]]_vars

\* The step is the start of a GetFile(x) call, with its Store(x, time.Now()).
StoresExcluded(x) ==
    /\ ncalls' = ncalls + 1
    /\ \/ \E t \in Threads : pc[t] = Idle /\ pc'[t] # Idle /\ pc'[t].arg = x
       \/ pc' = pc /\ last'.op = "GetFile" /\ last'.arg = x

\* C24 as stated: a GetFile(x) made while x has an entry in the blacklist
\* leaves the blacklist as the first GetFile(x) left it.
C24_SecondStoreIdempotent ==
    [][\A x \in ExcludeArgs \ {""} :
          (StoresExcluded(x) /\ x \in DOMAIN serviceAccountBlacklist) =>
              serviceAccountBlacklist' = serviceAccountBlacklist]_vars

\* C24, amended: the Store of a GetFile(x) made while x has an entry keeps
\* the set of blacklisted files and every other file's entry, and replaces
\* the time of x's entry by the time of this call; so the blacklist is left
\* as it was only when the entry was written at the same time.
C24_SecondStoreRefreshes ==
    [][\A x \in ExcludeArgs \ {""} :
          (StoresExcluded(x) /\ x \in DOMAIN serviceAccountBlacklist) =>
              LET bl == serviceAccountBlacklist
                  bl1 == serviceAccountBlacklist'
              IN  /\ DOMAIN bl1 = DOMAIN bl
                  /\ bl1[x] = now
                  /\ \A y \in DOMAIN bl \ {x} : bl1[y] = bl[y]
                  /\ (bl1 = bl) <=> (bl[x] = now)
                  /\ ~Expired(bl1[x], now + blacklistDuration)]_vars

\* A GetFile(x) on the second pool has replaced an entry of x written
\* earlier, and x's entry now carries a later time.
C24_Witness ==
    /\ last.op = "GetFile"
    /\ last.p = "p2"
    /\ last.arg # ""
    /\ last.prior >= 0
    /\ last.arg \in DOMAIN serviceAccountBlacklist
    /\ serviceAccountBlacklist[last.arg] > last.prior

\* C27: no step takes out of the blacklist an entry that is 25 hours old or
\* less: the entry a GetFile call deletes is the expired one it has read.
C27_DeletesOnlyExpired ==
    [][\A x \in DOMAIN serviceAccountBlacklist :
          x \notin DOMAIN serviceAccountBlacklist' =>
              Expired(serviceAccountBlacklist[x], now)]_vars

\* GetFile on pool p can return x: x is a candidate and passes the test of
\* the selection loop, so it is returned when the permutation puts it first.
CanReturn(p, x) ==
    x \in Files[p] /\ Usable(serviceAccountBlacklist, x, now)

\* C19: once more than 25 hours have passed since GetFile(x) blacklisted x,
\* a later GetFile on the same pool can return x again.
C19_ExpiredReturnsAgain ==
    [][(last'.op = "GetFile" /\ last'.arg = "") =>
          \A x \in DOMAIN serviceAccountBlacklist :
              Expired(serviceAccountBlacklist[x], now) => CanReturn(last'.p, x)]_vars

C20_LoadSeedsBoth ==
    (last.op = "Load" /\ last.ok /\ last.out # "") =>
        LET p == last.p
            scanned == Range(last.data)
            active == last.arg
        IN  /\ Files[p] = scanned \ {active}
            /\ PathsOf(sas[p]) = scanned \cup ({active} \ {""})
            /\ NonStale(sas[p]) = DOMAIN sas[p]
            /\ active # "" =>
                  /\ activeIdx[p] \in DOMAIN sas[p]
                  /\ sas[p][activeIdx[p]].saPath = active
            /\ Files[p] \subseteq PathsOf(sas[p])

\* ----------------------------------------------- preloaded services: claims

\* C5: svcs never holds more than Max entries.
C5_CacheWithinMax == \A p \in Pools : Len(svcs[p]) <= Max[p]

\* C22: no goroutine is inside createDriveService (disk and network I/O)
\* while it holds p.mu, so no caller of AddService, GetService, GetClient or
\* GetFile waits for the mutex while a service is being built.
C22_NoIOUnderLock ==
    \A t \in Threads :
        (pc[t].op = "PreloadServices" /\ pc[t].stage = "create") =>
            /\ mu[pc[t].p] # t
            /\ \A u \in Threads : ~(pc[u].op = "mu.Lock" /\ pc[u].p = pc[t].p)

\* C23: PreloadServices(f, count) builds at most count services, calls
\* createDriveService at most once per file of Files, goes on to the next
\* file when a call fails, and puts the services built, in the order built,
\* in front of the entries svcs held, which keep their order.
C23_PreloadBatch ==
    [][\A t \in Threads :
          (pc[t].op = "PreloadServices" /\ pc'[t] = Idle) =>
              LET c == pc[t]
                  p == c.p
              IN  /\ Len(c.built) <= c.n
                  /\ NoDup(c.tried)
                  /\ Range(c.tried) \subseteq Files[p]
                  /\ Range(c.built) \subseteq {Pair(f) : f \in Range(c.tried)}
                  /\ NoDup(c.built)
                  /\ Len(c.built) < c.n => Range(c.tried) = Files[p]
                  /\ svcs'[p] = c.built \o svcs[p]
                  /\ last'.ok
                  /\ last'.data = c.built
                  /\ Files' = Files]_vars

\* PreloadServices(f, 2) on two files returned one service, so one
\* createDriveService call failed, and put it in front of the entry svcs
\* already held.
C23_Witness ==
    /\ last.op = "PreloadServices"
    /\ last.n = 2
    /\ Cardinality(Files[last.p]) = 2
    /\ Len(last.data) = 1
    /\ Len(svcs[last.p]) = 2
    /\ svcs[last.p][1] = last.data[1]
    /\ svcs[last.p][2] \notin {Pair(f) : f \in Files[last.p]}

\* The error message of GetService and GetClient.
EmptyCache == "no available preloaded services"

\* C15: with Max >= 1, after every call of a sequence made of AddService,
\* GetService and GetClient only, on a cache that was empty at first, svcs
\* holds at most Max entries.
C15_OfferTakeWithinMax ==
    (/\ last.op \in {"new", "AddService", "GetService", "GetClient"}
     /\ Max[last.p] >= 1)
    => /\ Len(svcs[last.p]) <= Max[last.p]
       /\ Len(born[last.p]) = Len(svcs[last.p])

\* AddService was called on a full cache that GetService had rotated (its
\* oldest entry was not at the back): the cache is still full, with the pair
\* handed in at the front.
C15_Witness ==
    /\ last.op = "AddService"
    /\ Max[last.p] >= 2
    /\ Len(svcs[last.p]) = Max[last.p]
    /\ svcs[last.p][1] = [Service |-> last.out, Client |-> last.arg]
    /\ born[last.p][1] = Len(svcs[last.p])
    /\ born[last.p][Len(svcs[last.p])] # 1

\* C16: when AddService makes svcs longer than Max, the entry that leaves is
\* the one that was inserted earliest among those present, whatever
\* GetService and GetClient calls were made in between, and the pair handed
\* in is at the front.
C16_OfferDropsOldest ==
    [][LET p == last'.p
           n == Len(svcs[p])
       IN  (last'.op = "AddService" /\ n >= 1 /\ n + 1 > Max[p]) =>
              /\ born[p][n] = 1
              /\ svcs'[p][1] = [Service |-> last'.out, Client |-> last'.arg]]_vars

\* The sequence q after n rotations.
RECURSIVE RotateN(_, _)
RotateN(q, n) == IF n = 0 \/ q = <<>> THEN q ELSE RotateN(Rotate(q), n - 1)

\* C28: GetService made right after a successful GetClient on the same pool
\* returns the service of a pair of svcs whose client GetClient returned.
C28_ClientAndServiceMatch ==
    [][(/\ last.op = "GetClient"
        /\ last.ok
        /\ last'.op = "GetService"
        /\ last'.p = last.p) =>
           /\ last'.ok
           /\ \E i \in 1 .. Len(svcs[last.p]) :
                 /\ svcs[last.p][i].Client = last.out
                 /\ svcs[last.p][i].Service = last'.out]_vars

\* C17: GetService and GetClient fail with the Empty error and change nothing
\* when svcs is empty; otherwise they return the handle of the front pair and
\* move that pair to the back, so the pairs held and their number do not
\* change, and as many calls as there are pairs return every pair once, front
\* to back, and restore the order.
C17_TakeRotates ==
    [][last'.op \in {"GetService", "GetClient"} =>
          LET p == last'.p
              q == svcs[p]
              k == Len(q)
          IN  /\ q = <<>> =>
                    /\ ~last'.ok
                    /\ last'.err = EmptyCache
                    /\ svcs' = svcs
              /\ q # <<>> =>
                    /\ last'.ok
                    /\ last'.err = ""
                    /\ last'.out = IF last'.op = "GetService"
                                   THEN q[1].Service ELSE q[1].Client
                    /\ svcs'[p] = Tail(q) \o <<q[1]>>
                    /\ Len(svcs'[p]) = k
                    /\ Range(svcs'[p]) = Range(q)
                    /\ \A i \in 1 .. k : Head(RotateN(q, i - 1)) = q[i]
                    /\ RotateN(svcs'[p], k - 1) = q
              /\ \A o \in Pools \ {p} : svcs'[o] = svcs[o]]_vars

\* GetService returned the service of the front pair of three different
\* pairs, and that pair is now at the back.
C17_Witness ==
    /\ last.op = "GetService"
    /\ last.ok
    /\ Len(svcs[last.p]) = 3
    /\ Cardinality(Range(svcs[last.p])) = 3
    /\ svcs[last.p][3].Service = last.out

\* ------------------------------------------------------ concurrency: claims

\* C6: the methods that mutate the rotation index, Files or svcs run under
\* p.mu, so no two of them are ever in progress on one pool at the same time
\* and no two calls race on a field of the pool.
C6_MutatorsSerialized ==
    /\ \A t, u \in Threads :
          (/\ t # u
           /\ pc[t].op \in MutatingOps
           /\ pc[u].op \in MutatingOps) => pc[t].p # pc[u].p
    /\ ~DataRace
    /\ ~crashed

====
